---- MODULE Spec2Model ----
(***************************************************************************)
(* Model of the generated AI client of the SupportAI example               *)
(* (shepstack/examples/support-ai/generated/ai_client.py).                 *)
(*                                                                         *)
(* call_ai is a coroutine: several invocations may be in flight on the     *)
(* event loop at once, and they share the module-level dict _ai_cache.     *)
(* An invocation runs without interruption between suspension points.      *)
(* Its suspension points are the await of client.post (the request is on   *)
(* the network) and the exit of "async with httpx.AsyncClient()" (the      *)
(* client is being closed).  One action models each uninterrupted stretch. *)
(*                                                                         *)
(* Python values: str is a TLA+ string; Optional[str] is a sequence of     *)
(* length 0 (None) or 1 (the string); a parsed JSON object is a record and *)
(* a JSON array a sequence.                                                *)
(***************************************************************************)
EXTENDS Integers, Sequences, FiniteSets, TLC

VARIABLES
    AI_PROVIDER,   \* module constant read from the environment at import
    _ai_cache,     \* the module-level dict: cache_id -> cached result
    pc,            \* per invocation: idle, in_flight, closing, returned, raised
    req,           \* per invocation: the arguments of call_ai
    cache_id,      \* per invocation: the local cache_id ("" while unbound)
    result,        \* per invocation: the text obtained / returned
    exc,           \* per invocation: the pending or raised exception ("" = none)
    posts,         \* per invocation: the HTTP POSTs it has sent, in order
    access,        \* per invocation: how often it read / wrote _ai_cache
    caller,        \* per invocation: the helper that makes it and its argument
    hash_salt,     \* the salt of the process's str hash (PYTHONHASHSEED)
    ret,           \* per invocation: what the helper gave back to its caller
    silence        \* per invocation in flight: time since the socket last moved

vars == <<AI_PROVIDER, _ai_cache, pc, req, cache_id, result, exc, posts, access,
          caller, hash_salt, ret, silence>>

\* Number of invocations of call_ai in one run of the process.
MaxTasks == 3

Tasks == 1..MaxTasks

-----------------------------------------------------------------------------
(* Inputs *)

None == <<>>

Str(s) == <<s>>

\* Values of the AI_PROVIDER environment variable.
Providers == {"claude", "openai", "azure"}

\* Arguments of call_ai.  ReqA and ReqB are different triples whose
\* formatted key strings coincide; ReqC differs from ReqA in context only;
\* ReqN passes no cache_key and ReqE an empty one.
ReqA == [cache_key |-> Str("h"), prompt |-> "p:q", context |-> "c"]

ReqB == [cache_key |-> Str("h:p"), prompt |-> "q", context |-> "c"]

ReqC == [cache_key |-> Str("h"), prompt |-> "p:q", context |-> ""]

ReqN == [cache_key |-> None, prompt |-> "p:q", context |-> "c"]

ReqE == [cache_key |-> Str(""), prompt |-> "q", context |-> ""]

Requests == {ReqA, ReqB, ReqC, ReqN, ReqE}

\* The requests of the concurrent runs.
CoreRequests == {ReqA, ReqC, ReqN}

NoRequest == [cache_key |-> None, prompt |-> "", context |-> ""]

\* The endpoints of the two backends.
ClaudeUrl == "https://api.anthropic.com/v1/messages"

OpenAIUrl == "https://api.openai.com/v1/chat/completions"

\* Texts a provider may answer with.
Texts == {"positive", "negative"}

\* Parsed JSON bodies of a provider reply, in the shape of either backend,
\* complete or deviating from the schema.
ClaudeBody(text) == [content |-> <<[type |-> "text", text |-> text]>>]

OpenAIBody(text) ==
    [choices |-> <<[message |-> [role |-> "assistant", content |-> text]]>>]

Bodies ==
    {ClaudeBody(x) : x \in Texts} \cup {OpenAIBody(x) : x \in Texts}
    \cup { [content |-> <<>>],
           [content |-> <<[type |-> "tool_use"]>>],
           [choices |-> <<>>],
           [choices |-> <<[message |-> [role |-> "assistant"]]>>],
           [choices |-> <<[index |-> 0]>>],
           [error |-> "overloaded"] }

\* The exceptions httpx raises when an operation on the socket of a fresh
\* client has not moved for the timeout: during the connection and the TLS
\* handshake, while the request is written, while the reply is read.
Timeouts == {"ConnectTimeout", "WriteTimeout", "ReadTimeout"}

\* What awaiting client.post ends with: an exception raised by the
\* transport, or a response with a status code and a body (json = None
\* when the body is not valid JSON).
Responses ==
    { [kind |-> "ConnectError"] } \cup { [kind |-> k] : k \in Timeouts }
    \cup { [kind |-> "response", status |-> s, json |-> Str(b)] :
             s \in {200, 401, 500}, b \in Bodies }
    \cup { [kind |-> "response", status |-> s, json |-> None] : s \in {200, 500} }

\* The replies of the concurrent runs: a timeout, a server error, and a
\* complete body or one with an empty array in the schema of the backend
\* the request went to.
CoreResponses(url) ==
    { [kind |-> "ReadTimeout"],
      [kind |-> "response", status |-> 500, json |-> Str([error |-> "overloaded"])],
      [kind |-> "response", status |-> 200,
       json |-> Str(IF url = ClaudeUrl THEN [content |-> <<>>] ELSE [choices |-> <<>>])] }
    \cup { [kind |-> "response", status |-> 200,
            json |-> Str(IF url = ClaudeUrl THEN ClaudeBody(x) ELSE OpenAIBody(x))] :
             x \in Texts }

-----------------------------------------------------------------------------
(* Pure parts of the code *)

\* Mutant of IsTruthy: the test is "cache_key is not None".
IsTruthy_NotNone(cache_key) == cache_key # None

\* bool(cache_key) of "if cache_key:": None and "" are false.
IsTruthy(cache_key) == cache_key # None /\ cache_key[1] # ""

\* f"{cache_key}:{prompt}:{context}"
KeyString(cache_key, prompt, context) ==
    cache_key \o ":" \o prompt \o ":" \o context

\* hashlib.md5(s.encode()).hexdigest(): a digest, taken to be free of
\* collisions on the strings of the model.
md5_hexdigest(s) == "md5<" \o s \o ">"

\* Mutant of CacheId: the key is namespaced by the configured provider.
CacheId_PerProvider(r) ==
    md5_hexdigest(AI_PROVIDER \o ":" \o KeyString(r.cache_key[1], r.prompt, r.context))

\* Mutant of CacheId: the context is left out of the hashed string.
CacheId_IgnoresContext(r) ==
    md5_hexdigest(r.cache_key[1] \o ":" \o r.prompt)

\* The cache_id of a request whose cache_key is a non-empty string.
CacheId(r) == md5_hexdigest(KeyString(r.cache_key[1], r.prompt, r.context))

\* Mutant of ClaudeContent: the context is appended also when it is empty.
ClaudeContent_AlwaysContext(prompt, context) ==
    prompt \o "\n\nContext: " \o context

\* The content of the single user message built by _call_claude.
ClaudeContent(prompt, context) ==
    IF context # "" THEN prompt \o "\n\nContext: " \o context ELSE prompt

\* The content of the single user message built by _call_openai.
OpenAIContent(prompt, context) ==
    IF context # "" THEN prompt \o "\n\nContext: " \o context ELSE prompt

ClaudePost(prompt, context) ==
    [url |-> ClaudeUrl, content |-> ClaudeContent(prompt, context)]

OpenAIPost(prompt, context) ==
    [url |-> OpenAIUrl, content |-> OpenAIContent(prompt, context)]

\* Mutant of SelectPost: requests without context go to Claude, the others
\* to OpenAI, whatever the configuration says.
SelectPost_ByContext(provider, prompt, context) ==
    IF context = "" THEN ClaudePost(prompt, context)
    ELSE OpenAIPost(prompt, context)

\* The branch of call_ai that picks the adapter.
SelectPost(provider, prompt, context) ==
    IF provider = "claude" THEN ClaudePost(prompt, context)
    ELSE OpenAIPost(prompt, context)

Return(text) == [ok |-> TRUE, value |-> text, exc |-> ""]

Raise(e) == [ok |-> FALSE, value |-> "", exc |-> e]

\* response.raise_for_status() passes the 2xx codes.
IsSuccess(status) == 200 <= status /\ status <= 299

\* data["content"][0]["text"]
ClaudeExtract(data) ==
    IF "content" \notin DOMAIN data THEN Raise("KeyError")
    ELSE IF Len(data.content) = 0 THEN Raise("IndexError")
    ELSE IF "text" \notin DOMAIN data.content[1] THEN Raise("KeyError")
    ELSE Return(data.content[1].text)

\* data["choices"][0]["message"]["content"]
OpenAIExtract(data) ==
    IF "choices" \notin DOMAIN data THEN Raise("KeyError")
    ELSE IF Len(data.choices) = 0 THEN Raise("IndexError")
    ELSE IF "message" \notin DOMAIN data.choices[1] THEN Raise("KeyError")
    ELSE IF "content" \notin DOMAIN data.choices[1].message THEN Raise("KeyError")
    ELSE Return(data.choices[1].message.content)

\* The rest of an adapter once client.post has ended with resp:
\* raise_for_status, response.json(), extraction.
AfterPost(url, resp) ==
    IF resp.kind # "response" THEN Raise(resp.kind)
    ELSE IF ~IsSuccess(resp.status) THEN Raise("HTTPStatusError")
    ELSE IF resp.json = None THEN Raise("JSONDecodeError")
    ELSE IF url = ClaudeUrl THEN ClaudeExtract(resp.json[1])
    ELSE OpenAIExtract(resp.json[1])

\* Mutant of Store: the entry is filed under the digest of the cache_key
\* alone.
Store_ByHintOnly(cache, r, id, text) ==
    IF IsTruthy(r.cache_key)
    THEN [k \in DOMAIN cache \cup {md5_hexdigest(r.cache_key[1])} |->
            IF k = md5_hexdigest(r.cache_key[1]) THEN text ELSE cache[k]]
    ELSE cache

\* Mutant of Store: the cache keeps the latest entry only.
Store_Evicting(cache, r, id, text) ==
    IF IsTruthy(r.cache_key) THEN [k \in {id} |-> text] ELSE cache

\* Mutant of Store: the result is returned without being cached.
Store_Nothing(cache, r, id, text) == cache

\* Mutant of Store: the new text replaces the text of every entry.
Store_OverwritesAll(cache, r, id, text) ==
    IF IsTruthy(r.cache_key)
    THEN [k \in DOMAIN cache \cup {id} |-> text]
    ELSE cache

\* "if cache_key: _ai_cache[cache_id] = result"
Store(cache, r, id, text) ==
    IF IsTruthy(r.cache_key)
    THEN [k \in DOMAIN cache \cup {id} |-> IF k = id THEN text ELSE cache[k]]
    ELSE cache

-----------------------------------------------------------------------------
(* The process *)

InitTasks ==
    /\ _ai_cache = <<>>
    /\ pc = [t \in Tasks |-> "idle"]
    /\ req = [t \in Tasks |-> NoRequest]
    /\ cache_id = [t \in Tasks |-> ""]
    /\ result = [t \in Tasks |-> ""]
    /\ exc = [t \in Tasks |-> ""]
    /\ posts = [t \in Tasks |-> <<>>]
    /\ access = [t \in Tasks |-> [reads |-> 0, writes |-> 0]]

\* No helper is involved in an invocation.
NoCaller == [helper |-> "", arg |-> ""]

\* The helper has not given anything back yet.
Pending == [state |-> "pending", text |-> "", verdict |-> FALSE, exc |-> ""]

\* Runs in which call_ai is called directly.
InitDirect ==
    /\ caller = [t \in Tasks |-> NoCaller]
    /\ hash_salt = "s0"
    /\ ret = [t \in Tasks |-> Pending]
    /\ silence = [t \in Tasks |-> 0]

\* A step of call_ai leaves the helpers' part of the state as it is.
NoHelper == UNCHANGED <<caller, hash_salt, ret>>

\* A step of call_ai in runs that involve no helper and measure no time.
Direct == NoHelper /\ UNCHANGED silence

Init == AI_PROVIDER \in {"claude", "openai"} /\ InitTasks /\ InitDirect

\* Mutant of CallAi: the cache check is left out, every invocation goes to
\* the provider.
CallAi_NoLookup(t, r) ==
    /\ pc[t] = "idle"
    /\ t > 1 => pc[t - 1] # "idle"
    /\ req' = [req EXCEPT ![t] = r]
    /\ cache_id' = [cache_id EXCEPT ![t] =
                      IF IsTruthy(r.cache_key) THEN CacheId(r) ELSE ""]
    /\ posts' = [posts EXCEPT ![t] =
                   Append(@, SelectPost(AI_PROVIDER, r.prompt, r.context))]
    /\ pc' = [pc EXCEPT ![t] = "in_flight"]
    /\ UNCHANGED <<AI_PROVIDER, _ai_cache, result, exc, access>>

\* Mutant of CallAi: a hit returns the cached text and still sends the
\* request to refresh the entry.
CallAi_HitRevalidates(t, r) ==
    /\ pc[t] = "idle"
    /\ t > 1 => pc[t - 1] # "idle"
    /\ req' = [req EXCEPT ![t] = r]
    /\ cache_id' = [cache_id EXCEPT ![t] =
                      IF IsTruthy(r.cache_key) THEN CacheId(r) ELSE ""]
    /\ access' = [access EXCEPT ![t].reads =
                      IF IsTruthy(r.cache_key) THEN 1 ELSE 0]
    /\ posts' = [posts EXCEPT ![t] =
                   Append(@, SelectPost(AI_PROVIDER, r.prompt, r.context))]
    /\ IF IsTruthy(r.cache_key) /\ CacheId(r) \in DOMAIN _ai_cache
       THEN /\ result' = [result EXCEPT ![t] = _ai_cache[CacheId(r)]]
            /\ pc' = [pc EXCEPT ![t] = "returned"]
       ELSE /\ pc' = [pc EXCEPT ![t] = "in_flight"]
            /\ UNCHANGED result
    /\ UNCHANGED <<AI_PROVIDER, _ai_cache, exc>>

\* Mutant of CallAi: a hit takes the entry out of the cache.
CallAi_HitConsumes(t, r) ==
    /\ pc[t] = "idle"
    /\ t > 1 => pc[t - 1] # "idle"
    /\ req' = [req EXCEPT ![t] = r]
    /\ cache_id' = [cache_id EXCEPT ![t] =
                      IF IsTruthy(r.cache_key) THEN CacheId(r) ELSE ""]
    /\ access' = [access EXCEPT ![t].reads =
                      IF IsTruthy(r.cache_key) THEN 1 ELSE 0]
    /\ IF IsTruthy(r.cache_key) /\ CacheId(r) \in DOMAIN _ai_cache
       THEN /\ result' = [result EXCEPT ![t] = _ai_cache[CacheId(r)]]
            /\ _ai_cache' = [k \in DOMAIN _ai_cache \ {CacheId(r)} |-> _ai_cache[k]]
            /\ pc' = [pc EXCEPT ![t] = "returned"]
            /\ UNCHANGED posts
       ELSE /\ posts' = [posts EXCEPT ![t] =
                           Append(@, SelectPost(AI_PROVIDER, r.prompt, r.context))]
            /\ pc' = [pc EXCEPT ![t] = "in_flight"]
            /\ UNCHANGED <<result, _ai_cache>>
    /\ UNCHANGED <<AI_PROVIDER, exc>>

\* call_ai(r.prompt, r.context, r.cache_key) is entered and runs to its
\* first suspension: the cache check, and on a miss the choice of the
\* adapter and the sending of its request.  Invocations are numbered in the
\* order in which they start.
CallAi(t, r) ==
    /\ pc[t] = "idle"
    /\ t > 1 => pc[t - 1] # "idle"
    /\ req' = [req EXCEPT ![t] = r]
    /\ cache_id' = [cache_id EXCEPT ![t] =
                      IF IsTruthy(r.cache_key) THEN CacheId(r) ELSE ""]
    /\ access' = [access EXCEPT ![t].reads =
                      IF IsTruthy(r.cache_key) THEN 1 ELSE 0]
    /\ IF IsTruthy(r.cache_key) /\ CacheId(r) \in DOMAIN _ai_cache
       THEN /\ result' = [result EXCEPT ![t] = _ai_cache[CacheId(r)]]
            /\ pc' = [pc EXCEPT ![t] = "returned"]
            /\ UNCHANGED posts
       ELSE /\ posts' = [posts EXCEPT ![t] =
                           Append(@, SelectPost(AI_PROVIDER, r.prompt, r.context))]
            /\ pc' = [pc EXCEPT ![t] = "in_flight"]
            /\ UNCHANGED result
    /\ UNCHANGED <<AI_PROVIDER, _ai_cache, exc>>

\* Mutant of ReceiveResponse: when the Claude adapter fails, the request is
\* sent again to the other provider.
ReceiveResponse_Fallback(t, resp) ==
    /\ pc[t] = "in_flight"
    /\ exc[t] # "CancelledError"
    /\ LET url == posts[t][Len(posts[t])].url
           out == AfterPost(url, resp)
       IN  IF ~out.ok /\ url = ClaudeUrl
           THEN /\ posts' = [posts EXCEPT ![t] =
                              Append(@, OpenAIPost(req[t].prompt, req[t].context))]
                /\ UNCHANGED <<result, exc, pc>>
           ELSE /\ result' = [result EXCEPT ![t] = out.value]
                /\ exc' = [exc EXCEPT ![t] = out.exc]
                /\ pc' = [pc EXCEPT ![t] = "closing"]
                /\ UNCHANGED posts
    /\ UNCHANGED <<AI_PROVIDER, _ai_cache, req, cache_id, access>>

\* Mutant of ReceiveResponse: a reply that arrives while the cancelled
\* request is being torn down is still taken.
ReceiveResponse_IgnoresCancel(t, resp) ==
    /\ pc[t] = "in_flight"
    /\ LET out == AfterPost(posts[t][Len(posts[t])].url, resp)
       IN  /\ result' = [result EXCEPT ![t] = out.value]
           /\ exc' = [exc EXCEPT ![t] = out.exc]
    /\ pc' = [pc EXCEPT ![t] = "closing"]
    /\ UNCHANGED <<AI_PROVIDER, _ai_cache, req, cache_id, posts, access>>

\* client.post ends with resp and the adapter runs on to the exit of its
\* "async with" block, holding the text to return or the exception raised.
\* A request that is being torn down after a cancellation takes no reply.
ReceiveResponse(t, resp) ==
    /\ pc[t] = "in_flight"
    /\ exc[t] # "CancelledError"
    /\ LET out == AfterPost(posts[t][Len(posts[t])].url, resp)
       IN  /\ result' = [result EXCEPT ![t] = out.value]
           /\ exc' = [exc EXCEPT ![t] = out.exc]
    /\ pc' = [pc EXCEPT ![t] = "closing"]
    /\ UNCHANGED <<AI_PROVIDER, _ai_cache, req, cache_id, posts, access>>

\* Mutant of Complete: the cache is written in a "finally", so also when the
\* adapter raised.
Complete_CachesFailure(t) ==
    /\ pc[t] = "closing"
    /\ _ai_cache' = Store(_ai_cache, req[t], cache_id[t], result[t])
    /\ access' = [access EXCEPT ![t].writes =
                    IF IsTruthy(req[t].cache_key) THEN 1 ELSE 0]
    /\ pc' = [pc EXCEPT ![t] = IF exc[t] # "" THEN "raised" ELSE "returned"]
    /\ UNCHANGED <<AI_PROVIDER, req, cache_id, result, exc, posts>>

\* The client is closed and the adapter is left: on an exception call_ai
\* raises it to its caller, otherwise it caches the result and returns it.
Complete(t) ==
    /\ pc[t] = "closing"
    /\ IF exc[t] # ""
       THEN /\ pc' = [pc EXCEPT ![t] = "raised"]
            /\ UNCHANGED <<_ai_cache, access>>
       ELSE /\ _ai_cache' = Store(_ai_cache, req[t], cache_id[t], result[t])
            /\ access' = [access EXCEPT ![t].writes =
                            IF IsTruthy(req[t].cache_key) THEN 1 ELSE 0]
            /\ pc' = [pc EXCEPT ![t] = "returned"]
    /\ UNCHANGED <<AI_PROVIDER, req, cache_id, result, exc, posts>>

\* The caller cancels the task while it is suspended: CancelledError is
\* thrown in at the await.  At the exit of the client it leaves call_ai at
\* once; inside client.post the coroutine yields again while the connection
\* is closed, so the invocation stays suspended with the exception pending.
Cancel(t) ==
    /\ pc[t] \in {"in_flight", "closing"}
    /\ exc[t] # "CancelledError"
    /\ pc' = [pc EXCEPT ![t] = IF pc[t] = "in_flight" THEN "in_flight" ELSE "raised"]
    /\ exc' = [exc EXCEPT ![t] = "CancelledError"]
    /\ result' = [result EXCEPT ![t] = ""]
    /\ UNCHANGED <<AI_PROVIDER, _ai_cache, req, cache_id, posts, access>>

\* The connection of a cancelled request is closed and CancelledError
\* leaves client.post, the adapter and call_ai.
Unwind(t) ==
    /\ pc[t] = "in_flight"
    /\ exc[t] = "CancelledError"
    /\ pc' = [pc EXCEPT ![t] = "raised"]
    /\ UNCHANGED <<AI_PROVIDER, _ai_cache, req, cache_id, result, exc, posts, access>>

\* The URL the invocation's request went to.
Url(t) == posts[t][Len(posts[t])].url

\* Concurrent runs: any number of invocations in flight at once.
Next ==
    \/ \E t \in Tasks, r \in CoreRequests : CallAi(t, r) /\ Direct
    \/ \E t \in Tasks :
         /\ pc[t] = "in_flight"
         /\ \E resp \in CoreResponses(Url(t)) : ReceiveResponse(t, resp)
         /\ Direct
    \/ \E t \in Tasks : Complete(t) /\ Direct
    \/ \E t \in Tasks : Cancel(t) /\ Direct
    \/ \E t \in Tasks : Unwind(t) /\ Direct

Spec == Init /\ [][Next]_vars

\* Number of invocations of a serial run.
MaxSerial == 2

Suspended(t) == pc[t] \in {"in_flight", "closing"}

\* Serial runs: the caller awaits each call_ai before it makes the next, with
\* every request, every reply and every provider setting of the model.
NextSerial ==
    \/ \E t \in 1..MaxSerial, r \in Requests :
         (\A u \in Tasks : ~Suspended(u)) /\ CallAi(t, r) /\ Direct
    \/ \E t \in 1..MaxSerial, resp \in Responses : ReceiveResponse(t, resp) /\ Direct
    \/ \E t \in 1..MaxSerial : Complete(t) /\ Direct
    \/ \E t \in 1..MaxSerial : Cancel(t) /\ Direct
    \/ \E t \in 1..MaxSerial : Unwind(t) /\ Direct

InitSerial == AI_PROVIDER \in Providers /\ InitTasks /\ InitDirect

SpecSerial == InitSerial /\ [][NextSerial]_vars

\* Ticks of silence on the socket after which httpx gives up: timeout=30.0
\* bounds each socket operation, in ticks of the model.
TimeoutTicks == 2

\* Time passes without a byte of the reply arriving.
Tick(t) ==
    /\ pc[t] = "in_flight"
    /\ exc[t] # "CancelledError"
    /\ silence[t] < TimeoutTicks
    /\ silence' = [silence EXCEPT ![t] = @ + 1]
    /\ UNCHANGED <<AI_PROVIDER, _ai_cache, pc, req, cache_id, result, exc, posts,
                   access, caller, hash_salt, ret>>

\* A part of the reply arrives before the timeout expires: the read ends
\* and the next read starts with a timeout of its own.
Drip(t) ==
    /\ pc[t] = "in_flight"
    /\ exc[t] # "CancelledError"
    /\ silence[t] > 0
    /\ silence[t] < TimeoutTicks
    /\ silence' = [silence EXCEPT ![t] = 0]
    /\ UNCHANGED <<AI_PROVIDER, _ai_cache, pc, req, cache_id, result, exc, posts,
                   access, caller, hash_salt, ret>>

\* client.post ends: with the timeout exception of the operation under way
\* when the socket has been silent for the timeout, with any other outcome
\* before that.
TimedResponse(t, resp) ==
    /\ (resp.kind \in Timeouts) <=> (silence[t] = TimeoutTicks)
    /\ ReceiveResponse(t, resp)
    /\ silence' = [silence EXCEPT ![t] = 0]
    /\ NoHelper

\* The task is cancelled; the socket is not read any more.
TimedCancel(t) ==
    /\ Cancel(t)
    /\ silence' = [silence EXCEPT ![t] = 0]
    /\ NoHelper

\* Serial runs with the time on the socket.
NextLive ==
    \/ \E t \in 1..MaxSerial, r \in Requests :
         (\A u \in Tasks : ~Suspended(u)) /\ CallAi(t, r) /\ Direct
    \/ \E t \in 1..MaxSerial : Tick(t)
    \/ \E t \in 1..MaxSerial : Drip(t)
    \/ \E t \in 1..MaxSerial, resp \in Responses : TimedResponse(t, resp)
    \/ \E t \in 1..MaxSerial : Complete(t) /\ Direct
    \/ \E t \in 1..MaxSerial : TimedCancel(t)
    \/ \E t \in 1..MaxSerial : Unwind(t) /\ Direct

\* Time passes, an operation that has been silent for the timeout ends with
\* its timeout exception, and the event loop resumes every coroutine that
\* can run.
\* Nothing makes the provider complete its reply.
Fairness ==
    \A t \in 1..MaxSerial :
        /\ WF_vars(Tick(t))
        /\ WF_vars(\E k \in Timeouts : TimedResponse(t, [kind |-> k]))
        /\ WF_vars(Complete(t) /\ Direct)
        /\ WF_vars(Unwind(t) /\ Direct)

\* Serial runs in which time passes and coroutines are resumed.
SpecLive == InitSerial /\ [][NextLive]_vars /\ Fairness

-----------------------------------------------------------------------------
(* The generated helpers *)

\* Number of helper calls in one run of the process.
MaxHelperCalls == 1

\* Texts the callers pass: as message_content to the rule helpers, and as
\* the dict {"body": text} to the field and flow helpers.
Messages == {"I love this!", "say \"hi\"", "tab\there"}

\* The salts of str hashes in different processes.
HashSalts == {"s0", "s1"}

\* str(hash(s)): a number that depends on the string and on the salt of
\* the process, taken to be free of collisions on the strings of the model.
hash(salt, s) == "hash<" \o salt \o "," \o s \o ">"

\* The characters json.dumps copies or escapes with a backslash: " " to "~".
Printable ==
    " !\"#$%&()*+,-./0123456789:;<=>?@ABCDEFGHIJKLMNOPQRSTUVWXYZ[\\]^_`'abcdefghijklmnopqrstuvwxyz{|}~"

\* The control characters without a short escape of their own in TLA+
\* strings (U+0001 to U+001F and U+007F), and what json.dumps writes for
\* them.
ControlChars ==
    <<"", "", "", "", "", "", "", "", "", "", "", "", "", "",
      "", "", "", "", "", "", "", "", "", "", "", "", "", "">>

ControlEscapes ==
    <<"\\u0001", "\\u0002", "\\u0003", "\\u0004", "\\u0005", "\\u0006",
      "\\u0007", "\\b", "\\u000b", "\\u000e", "\\u000f", "\\u0010",
      "\\u0011", "\\u0012", "\\u0013", "\\u0014", "\\u0015", "\\u0016",
      "\\u0017", "\\u0018", "\\u0019", "\\u001a", "\\u001b", "\\u001c",
      "\\u001d", "\\u001e", "\\u001f", "\\u007f">>

\* Characters beyond "~" the model has (U+0080 to U+00FF, U+1680, U+20AC),
\* and what ensure_ascii makes of them.
NonAsciiChars ==
    <<"", "", "", "", "", "", "", "", "", "", "", "", "", "",
      "", "", "", "", "", "", "", "", "", "", "", "", "", "",
      "", "", "", "", " ", "¡", "¢", "£", "¤", "¥", "¦", "§", "¨", "©",
      "ª", "«", "¬", "­", "®", "¯", "°", "±", "²", "³", "´", "µ", "¶", "·",
      "¸", "¹", "º", "»", "¼", "½", "¾", "¿", "À", "Á", "Â", "Ã", "Ä", "Å",
      "Æ", "Ç", "È", "É", "Ê", "Ë", "Ì", "Í", "Î", "Ï", "Ð", "Ñ", "Ò", "Ó",
      "Ô", "Õ", "Ö", "×", "Ø", "Ù", "Ú", "Û", "Ü", "Ý", "Þ", "ß", "à", "á",
      "â", "ã", "ä", "å", "æ", "ç", "è", "é", "ê", "ë", "ì", "í", "î", "ï",
      "ð", "ñ", "ò", "ó", "ô", "õ", "ö", "÷", "ø", "ù", "ú", "û", "ü", "ý",
      "þ", "ÿ", " ", "€">>

NonAsciiEscapes ==
    <<"\\u0080", "\\u0081", "\\u0082", "\\u0083", "\\u0084", "\\u0085",
      "\\u0086", "\\u0087", "\\u0088", "\\u0089", "\\u008a", "\\u008b",
      "\\u008c", "\\u008d", "\\u008e", "\\u008f", "\\u0090", "\\u0091",
      "\\u0092", "\\u0093", "\\u0094", "\\u0095", "\\u0096", "\\u0097",
      "\\u0098", "\\u0099", "\\u009a", "\\u009b", "\\u009c", "\\u009d",
      "\\u009e", "\\u009f", "\\u00a0", "\\u00a1", "\\u00a2", "\\u00a3",
      "\\u00a4", "\\u00a5", "\\u00a6", "\\u00a7", "\\u00a8", "\\u00a9",
      "\\u00aa", "\\u00ab", "\\u00ac", "\\u00ad", "\\u00ae", "\\u00af",
      "\\u00b0", "\\u00b1", "\\u00b2", "\\u00b3", "\\u00b4", "\\u00b5",
      "\\u00b6", "\\u00b7", "\\u00b8", "\\u00b9", "\\u00ba", "\\u00bb",
      "\\u00bc", "\\u00bd", "\\u00be", "\\u00bf", "\\u00c0", "\\u00c1",
      "\\u00c2", "\\u00c3", "\\u00c4", "\\u00c5", "\\u00c6", "\\u00c7",
      "\\u00c8", "\\u00c9", "\\u00ca", "\\u00cb", "\\u00cc", "\\u00cd",
      "\\u00ce", "\\u00cf", "\\u00d0", "\\u00d1", "\\u00d2", "\\u00d3",
      "\\u00d4", "\\u00d5", "\\u00d6", "\\u00d7", "\\u00d8", "\\u00d9",
      "\\u00da", "\\u00db", "\\u00dc", "\\u00dd", "\\u00de", "\\u00df",
      "\\u00e0", "\\u00e1", "\\u00e2", "\\u00e3", "\\u00e4", "\\u00e5",
      "\\u00e6", "\\u00e7", "\\u00e8", "\\u00e9", "\\u00ea", "\\u00eb",
      "\\u00ec", "\\u00ed", "\\u00ee", "\\u00ef", "\\u00f0", "\\u00f1",
      "\\u00f2", "\\u00f3", "\\u00f4", "\\u00f5", "\\u00f6", "\\u00f7",
      "\\u00f8", "\\u00f9", "\\u00fa", "\\u00fb", "\\u00fc", "\\u00fd",
      "\\u00fe", "\\u00ff", "\\u1680", "\\u20ac">>

\* What json.dumps writes for one character of a string: a short escape
\* for the quote, the backslash and the control characters that have one,
\* the character itself when it is printable ASCII, and \uXXXX otherwise.
\* The model has no value for characters outside its tables.
JsonEscapeChar(c) ==
    IF c = "\"" THEN "\\\""
    ELSE IF c = "\\" THEN "\\\\"
    ELSE IF c = "\n" THEN "\\n"
    ELSE IF c = "\r" THEN "\\r"
    ELSE IF c = "\t" THEN "\\t"
    ELSE IF c = "\f" THEN "\\f"
    ELSE IF \E i \in 1..Len(Printable) : SubSeq(Printable, i, i) = c THEN c
    ELSE IF \E i \in 1..Len(ControlChars) : ControlChars[i] = c
    THEN LET i == CHOOSE j \in 1..Len(ControlChars) : ControlChars[j] = c
         IN  ControlEscapes[i]
    ELSE LET i == CHOOSE j \in 1..Len(NonAsciiChars) : NonAsciiChars[j] = c
         IN  NonAsciiEscapes[i]

RECURSIVE JsonEscape(_)
\* The escapes json.dumps makes inside a string.
JsonEscape(s) ==
    IF s = "" THEN "" ELSE JsonEscapeChar(Head(s)) \o JsonEscape(Tail(s))

\* json.dumps(data, default=str) of a dict with the one key "body".
json_dumps(data) == "{\"body\": \"" \o JsonEscape(data.body) \o "\"}"

\* The arguments compute_message_sentiment passes to call_ai.
compute_message_sentiment(data, salt) ==
    LET context == json_dumps(data)
    IN  [cache_key |-> Str("Message_sentiment_" \o
                           (IF context # "" THEN hash(salt, context) ELSE "empty")),
         prompt |-> "classify as positive, neutral, or negative\n\nRespond with only the result, no explanation.",
         context |-> context]

\* The arguments compute_message_summary passes to call_ai.
compute_message_summary(data, salt) ==
    LET context == json_dumps(data)
    IN  [cache_key |-> Str("Message_summary_" \o
                           (IF context # "" THEN hash(salt, context) ELSE "empty")),
         prompt |-> "summarize in one sentence\n\nRespond with only the result, no explanation.",
         context |-> context]

\* The arguments check_rule_1 passes to call_ai: the prompt is a plain
\* string, so "{message_content}" stays as written, and context is left at
\* its default.
check_rule_1(message_content, salt) ==
    [cache_key |-> Str("rule_1_" \o hash(salt, message_content)),
     prompt |-> "Analyze this text and determine if it: sounds frustrated or angry\n\nText: {message_content}\n\nRespond with only \"true\" or \"false\".",
     context |-> ""]

\* The arguments check_rule_2 passes to call_ai.
check_rule_2(message_content, salt) ==
    [cache_key |-> Str("rule_2_" \o hash(salt, message_content)),
     prompt |-> "Analyze this text and determine if it: looks like spam or marketing\n\nText: {message_content}\n\nRespond with only \"true\" or \"false\".",
     context |-> ""]

\* The arguments the four flow helpers pass to call_ai.
flow_company_uploads_knowledge_base_step_5(context) ==
    [cache_key |-> Str("flow_company_uploads_knowledge_base_step_5"),
     prompt |-> "indexes it for search\n\nProvide a clear, actionable response.",
     context |-> json_dumps(context)]

flow_customer_asks_a_question_step_3(context) ==
    [cache_key |-> Str("flow_customer_asks_a_question_step_3"),
     prompt |-> "search knowledge base for relevant articles\n\nProvide a clear, actionable response.",
     context |-> json_dumps(context)]

flow_customer_asks_a_question_step_4(context) ==
    [cache_key |-> Str("flow_customer_asks_a_question_step_4"),
     prompt |-> "generate answer based on knowledge base context\n\nProvide a clear, actionable response.",
     context |-> json_dumps(context)]

flow_ai_escalates_to_agent_step_1(context) ==
    [cache_key |-> Str("flow_ai_escalates_to_agent_step_1"),
     prompt |-> "confidence score below 60 percent\n\nProvide a clear, actionable response.",
     context |-> json_dumps(context)]

FieldHelpers == {"compute_message_sentiment", "compute_message_summary"}

RuleHelpers == {"check_rule_1", "check_rule_2"}

FlowHelpers ==
    {"flow_company_uploads_knowledge_base_step_5",
     "flow_customer_asks_a_question_step_3",
     "flow_customer_asks_a_question_step_4",
     "flow_ai_escalates_to_agent_step_1"}

Helpers == FieldHelpers \cup RuleHelpers \cup FlowHelpers

\* The helper calls of the model.
Callers == {[helper |-> h, arg |-> m] : h \in Helpers, m \in Messages}

\* The request the helper call c makes in a process with the given salt.
HelperRequest(c, salt) ==
    CASE c.helper = "compute_message_sentiment" ->
            compute_message_sentiment([body |-> c.arg], salt)
      [] c.helper = "compute_message_summary" ->
            compute_message_summary([body |-> c.arg], salt)
      [] c.helper = "check_rule_1" -> check_rule_1(c.arg, salt)
      [] c.helper = "check_rule_2" -> check_rule_2(c.arg, salt)
      [] c.helper = "flow_company_uploads_knowledge_base_step_5" ->
            flow_company_uploads_knowledge_base_step_5([body |-> c.arg])
      [] c.helper = "flow_customer_asks_a_question_step_3" ->
            flow_customer_asks_a_question_step_3([body |-> c.arg])
      [] c.helper = "flow_customer_asks_a_question_step_4" ->
            flow_customer_asks_a_question_step_4([body |-> c.arg])
      [] c.helper = "flow_ai_escalates_to_agent_step_1" ->
            flow_ai_escalates_to_agent_step_1([body |-> c.arg])

\* The characters str.strip() removes: the ASCII white space with U+000B
\* and U+001C to U+001F, and U+0085, U+00A0 and U+1680.  The other sixteen
\* (U+2000 to U+200A, U+2028, U+2029, U+202F, U+205F, U+3000) cannot be
\* written in a string of the model.
Whitespace ==
    {" ", "\t", "\n", "\r", "\f", "", "", "", "", "", "", " ", " "}

RECURSIVE lstrip(_)
lstrip(s) ==
    IF s = "" THEN ""
    ELSE IF Head(s) \in Whitespace THEN lstrip(Tail(s)) ELSE s

RECURSIVE rstrip(_)
rstrip(s) ==
    IF s = "" THEN ""
    ELSE IF SubSeq(s, Len(s), Len(s)) \in Whitespace
         THEN rstrip(SubSeq(s, 1, Len(s) - 1))
         ELSE s

\* str.strip()
strip(s) == rstrip(lstrip(s))

\* The upper case letters of ASCII and Latin-1, and their lower case.
UpperCase == "ABCDEFGHIJKLMNOPQRSTUVWXYZÀÁÂÃÄÅÆÇÈÉÊËÌÍÎÏÐÑÒÓÔÕÖØÙÚÛÜÝÞ"

LowerCase == "abcdefghijklmnopqrstuvwxyzàáâãäåæçèéêëìíîïðñòóôõöøùúûüýþ"

LowerChar(c) ==
    IF \E i \in 1..Len(UpperCase) : SubSeq(UpperCase, i, i) = c
    THEN LET i == CHOOSE j \in 1..Len(UpperCase) : SubSeq(UpperCase, j, j) = c
         IN  SubSeq(LowerCase, i, i)
    ELSE c

RECURSIVE lower(_)
\* str.lower(), on text of ASCII and Latin-1
lower(s) == IF s = "" THEN "" ELSE LowerChar(Head(s)) \o lower(Tail(s))

\* Mutant of RuleVerdict: the text is compared without being stripped.
RuleVerdict_NoStrip(text) == lower(text) = "true"

\* result.strip().lower() == "true"
RuleVerdict(text) == lower(strip(text)) = "true"

\* What a helper gives back when call_ai returns text: the rule helpers a
\* bool, the others the text itself.
HelperReturn(c, text) ==
    IF c.helper \in RuleHelpers
    THEN [state |-> "returned", text |-> "", verdict |-> RuleVerdict(text), exc |-> ""]
    ELSE [state |-> "returned", text |-> text, verdict |-> FALSE, exc |-> ""]

\* No helper catches anything: what call_ai raises leaves the helper.
HelperRaise(e) == [state |-> "raised", text |-> "", verdict |-> FALSE, exc |-> e]

\* Texts a provider may answer a helper's request with.
HelperTexts ==
    {" True ", "true", "TRUE\n", "true", "maybe", "false", "not true"}

\* The replies of the helper runs: a timeout, a server error, and a
\* complete body in the schema of the backend the request went to.
HelperResponses(url) ==
    { [kind |-> "ReadTimeout"],
      [kind |-> "response", status |-> 500, json |-> Str([error |-> "overloaded"])] }
    \cup { [kind |-> "response", status |-> 200,
            json |-> Str(IF url = ClaudeUrl THEN ClaudeBody(x) ELSE OpenAIBody(x))] :
             x \in HelperTexts }

\* The helper of invocation t is called: it builds its arguments and awaits
\* call_ai, which may answer from the cache at once.
HelperCall(t) ==
    /\ caller[t].helper # ""
    /\ \A u \in Tasks : ~Suspended(u)
    /\ CallAi(t, HelperRequest(caller[t], hash_salt))
    /\ ret' = [ret EXCEPT ![t] =
                 IF pc'[t] = "returned" THEN HelperReturn(caller[t], result'[t])
                 ELSE @]
    /\ UNCHANGED <<caller, hash_salt, silence>>

\* The reply to the request of a helper's invocation arrives.
HelperReceive(t, resp) == ReceiveResponse(t, resp) /\ Direct

\* call_ai ends and the helper ends with it, in the same step of the event
\* loop.
HelperComplete(t) ==
    /\ Complete(t)
    /\ ret' = [ret EXCEPT ![t] =
                 IF pc'[t] = "returned" THEN HelperReturn(caller[t], result[t])
                 ELSE IF pc'[t] = "raised" THEN HelperRaise(exc[t])
                 ELSE @]
    /\ UNCHANGED <<caller, hash_salt, silence>>

\* The task awaiting the helper is cancelled.
HelperCancel(t) ==
    /\ Cancel(t)
    /\ ret' = [ret EXCEPT ![t] =
                 IF pc'[t] = "raised" THEN HelperRaise("CancelledError") ELSE @]
    /\ UNCHANGED <<caller, hash_salt, silence>>

\* CancelledError leaves call_ai and the helper.
HelperUnwind(t) ==
    /\ Unwind(t)
    /\ ret' = [ret EXCEPT ![t] = HelperRaise(exc[t])]
    /\ UNCHANGED <<caller, hash_salt, silence>>

NextHelpers ==
    \/ \E t \in 1..MaxHelperCalls : HelperCall(t)
    \/ \E t \in 1..MaxHelperCalls :
         /\ pc[t] = "in_flight"
         /\ \E resp \in HelperResponses(Url(t)) : HelperReceive(t, resp)
    \/ \E t \in 1..MaxHelperCalls : HelperComplete(t)
    \/ \E t \in 1..MaxHelperCalls : HelperCancel(t)
    \/ \E t \in 1..MaxHelperCalls : HelperUnwind(t)

InitHelpers ==
    /\ AI_PROVIDER \in {"claude", "openai"}
    /\ InitTasks
    /\ hash_salt \in HashSalts
    /\ \E f \in [1..MaxHelperCalls -> Callers] :
          caller = [t \in Tasks |-> IF t <= MaxHelperCalls THEN f[t] ELSE NoCaller]
    /\ ret = [t \in Tasks |-> Pending]
    /\ silence = [t \in Tasks |-> 0]

\* Serial runs of the generated helpers.
SpecHelpers == InitHelpers /\ [][NextHelpers]_vars

-----------------------------------------------------------------------------
(* Vocabulary of the properties *)

\* The request carries a cache_hint: a cache_key that is a non-empty string.
HasHint(r) == r.cache_key # None /\ r.cache_key # Str("")

\* The key of a request with a hint.
KeyOf(r) == md5_hexdigest(r.cache_key[1] \o ":" \o r.prompt \o ":" \o r.context)

\* The number of provider calls (requests sent) of an invocation.
ProviderCalls(t) == Len(posts[t])

\* Task t starts in this step.
Starts(t) == pc[t] = "idle" /\ pc'[t] # "idle"

\* Invocations of one key that have gone to the provider.
CallersOf(key) == {k \in Tasks : cache_id[k] = key /\ ProviderCalls(k) > 0}

-----------------------------------------------------------------------------
(* C1 *)

\* C1 as stated, with R1 read as the invocation that filled the cache:
\* whenever an invocation j starts after an invocation i of the same request
\* (with a hint) has called the provider and returned, j returns the text i
\* returned and the two have made exactly one provider call together.
C1_IdempotenceAsStated ==
    [][\A i, j \in Tasks :
          (pc[i] = "returned" /\ HasHint(req[i]) /\ ProviderCalls(i) = 1
             /\ Starts(j) /\ req'[j] = req[i])
          => /\ pc'[j] = "returned"
             /\ result'[j] = result[i]
             /\ ProviderCalls(i) + Len(posts'[j]) = 1]_vars

\* C1 amended: whenever an invocation j starts after an invocation i of the
\* same request (with a hint) has returned, j makes no provider call and
\* returns the text cached under the key; the two make at most one provider
\* call together, exactly one when i missed the cache; and j returns the
\* text i returned provided at most one invocation of that key has gone to
\* the provider.
C1_Idempotence ==
    [][\A i, j \in Tasks :
          (pc[i] = "returned" /\ HasHint(req[i]) /\ Starts(j) /\ req'[j] = req[i])
          => /\ pc'[j] = "returned"
             /\ Len(posts'[j]) = 0
             /\ KeyOf(req[i]) \in DOMAIN _ai_cache
             /\ result'[j] = _ai_cache[KeyOf(req[i])]
             /\ ProviderCalls(i) + Len(posts'[j]) <= 1
             /\ access[i].writes = 1 => ProviderCalls(i) + Len(posts'[j]) = 1
             /\ Cardinality(CallersOf(KeyOf(req[i]))) <= 1
                  => result'[j] = result[i]]_vars

\* An invocation that missed, called the provider once and returned, and a
\* later one of the same request answered from the cache with the same text.
C1_Witness ==
    \E i, j \in Tasks :
        /\ i # j /\ req[i] = req[j] /\ HasHint(req[i])
        /\ pc[i] = "returned" /\ pc[j] = "returned"
        /\ ProviderCalls(i) = 1 /\ access[i].writes = 1
        /\ ProviderCalls(j) = 0 /\ result[j] = result[i]
        /\ Cardinality(CallersOf(KeyOf(req[i]))) = 1

-----------------------------------------------------------------------------
(* C2 *)

\* C2: an invocation with a hint whose key is in the cache when it looks it
\* up returns the stored text at once, sends no request to either provider
\* and leaves the cache as it is; once returned it never sends one.
C2_HitShortCircuits ==
    [][\A t \in Tasks :
          /\ (Starts(t) /\ HasHint(req'[t]) /\ KeyOf(req'[t]) \in DOMAIN _ai_cache)
             => /\ pc'[t] = "returned"
                /\ result'[t] = _ai_cache[KeyOf(req'[t])]
                /\ posts'[t] = <<>>
                /\ _ai_cache' = _ai_cache
          /\ pc[t] = "returned" => posts'[t] = posts[t] /\ pc'[t] = "returned"]_vars

\* An invocation answered from the cache, with no request sent.
C2_Witness ==
    \E t \in Tasks :
        /\ pc[t] = "returned" /\ HasHint(req[t])
        /\ access[t] = [reads |-> 1, writes |-> 0]
        /\ posts[t] = <<>>
        /\ result[t] = _ai_cache[KeyOf(req[t])]

-----------------------------------------------------------------------------
(* C3 *)

\* C3: when the adapter fails, the step in which it fails and the step in
\* which call_ai raises leave the cache unchanged, the exception that
\* reaches the caller is the adapter's, and the failed invocation has
\* written nothing to the cache.
C3_NoNegativeCaching ==
    [][\A t \in Tasks :
          /\ (pc[t] = "in_flight" /\ pc'[t] = "closing" /\ exc'[t] # "")
             => _ai_cache' = _ai_cache
          /\ (pc[t] = "closing" /\ exc[t] # "" /\ pc'[t] # "closing")
             => /\ pc'[t] = "raised"
                /\ exc'[t] \in {exc[t], "CancelledError"}
                /\ _ai_cache' = _ai_cache
                /\ access'[t].writes = 0]_vars

\* An invocation with a hint failed on a non-success status while another
\* entry was cached, and its own key has no entry.
C3_Witness ==
    \E t \in Tasks :
        /\ pc[t] = "raised" /\ exc[t] = "HTTPStatusError" /\ HasHint(req[t])
        /\ KeyOf(req[t]) \notin DOMAIN _ai_cache
        /\ DOMAIN _ai_cache # {}

-----------------------------------------------------------------------------
(* C4 *)

\* The request carries no cache_hint: cache_key is None or "".
NoHint(r) == r.cache_key = None \/ r.cache_key = Str("")

\* C4: an invocation without a hint has sent exactly one request once it has
\* started, has neither read nor written the cache, and none of its steps
\* changes the cache, whatever the cache holds and however the call ends.
C4_NoCachingWithoutHint ==
    [][\A t \in Tasks :
          (pc'[t] # "idle" /\ NoHint(req'[t]))
          => /\ Len(posts'[t]) = 1
             /\ access'[t] = [reads |-> 0, writes |-> 0]
             /\ pc'[t] # pc[t] => _ai_cache' = _ai_cache]_vars

\* An invocation with an empty cache_key returned a text while the cache
\* held an entry.
C4_Witness ==
    \E t \in Tasks :
        /\ req[t] = ReqE /\ pc[t] = "returned" /\ result[t] \in Texts
        /\ Len(posts[t]) = 1
        /\ DOMAIN _ai_cache # {}

-----------------------------------------------------------------------------
(* C5 *)

\* C5: every started invocation is either a cache hit that has sent no
\* request, or has sent exactly one request to one adapter; a failed
\* invocation has sent exactly one (no retry, no fallback).
C5_AtMostOneProviderCall ==
    \A t \in Tasks :
        /\ pc[t] = "idle" => posts[t] = <<>>
        /\ pc[t] # "idle" =>
              \/ /\ posts[t] = <<>>
                 /\ pc[t] = "returned"
                 /\ access[t] = [reads |-> 1, writes |-> 0]
              \/ /\ Len(posts[t]) = 1
                 /\ posts[t][1].url \in {ClaudeUrl, OpenAIUrl}
        /\ pc[t] \in {"in_flight", "closing", "raised"} => Len(posts[t]) = 1

\* An invocation failed on a server error after a single request, and
\* another one was answered from the cache.
C5_Witness ==
    /\ \E t \in Tasks :
          pc[t] = "raised" /\ exc[t] = "HTTPStatusError" /\ Len(posts[t]) = 1
    /\ \E t \in Tasks : pc[t] = "returned" /\ posts[t] = <<>>

-----------------------------------------------------------------------------
(* C6 *)

\* C6: the cache is a well-formed mapping at all times, however invocations
\* of one key overlap: every key is the key of an invocation that called the
\* provider, returned and wrote the entry, and the text under it is a text
\* a provider answered and the one such an invocation returned.
C6_CacheWellFormed ==
    \A k \in DOMAIN _ai_cache :
        /\ _ai_cache[k] \in Texts
        /\ \E t \in Tasks :
              /\ pc[t] = "returned" /\ HasHint(req[t]) /\ KeyOf(req[t]) = k
              /\ ProviderCalls(t) = 1 /\ access[t].writes = 1
              /\ result[t] = _ai_cache[k]

\* Both of two invocations of one key missed the cache, called the provider
\* and returned, with different texts; the cache holds one of them.
C6_Witness ==
    \E i, j \in Tasks :
        /\ i # j /\ HasHint(req[i]) /\ req[i] = req[j]
        /\ pc[i] = "returned" /\ pc[j] = "returned"
        /\ ProviderCalls(i) = 1 /\ ProviderCalls(j) = 1
        /\ access[i].writes = 1 /\ access[j].writes = 1
        /\ result[i] # result[j]
        /\ _ai_cache[KeyOf(req[i])] \in {result[i], result[j]}

-----------------------------------------------------------------------------
(* C7 *)

\* C7: no step removes a key from the cache.
C7_KeysOnlyGrow == [][DOMAIN _ai_cache \subseteq DOMAIN _ai_cache']_vars

\* The cache holds the entries of two different keys.
C7_Witness == Cardinality(DOMAIN _ai_cache) = 2

-----------------------------------------------------------------------------
(* C8 *)

\* C8: in the step in which an invocation with a hint returns after a miss,
\* the cache maps the request's key to the text it returns.
C8_StoreBeforeReturn ==
    [][\A t \in Tasks :
          (pc[t] = "closing" /\ pc'[t] = "returned" /\ HasHint(req[t]))
          => /\ KeyOf(req[t]) \in DOMAIN _ai_cache'
             /\ _ai_cache'[KeyOf(req[t])] = result'[t]
             /\ result'[t] \in Texts]_vars

\* An invocation returned after a miss and its text is the cached one, in
\* place of the text another invocation had stored there before.
C8_Witness ==
    \E t, u \in Tasks :
        /\ pc[t] = "returned" /\ HasHint(req[t]) /\ access[t].writes = 1
        /\ _ai_cache[KeyOf(req[t])] = result[t]
        /\ pc[u] = "returned" /\ req[u] = req[t] /\ access[u].writes = 1
        /\ result[u] # result[t]

-----------------------------------------------------------------------------
(* C9 *)

\* The payload the adapters are to send for (prompt, context).
Payload(prompt, context) ==
    IF context = "" THEN prompt ELSE prompt \o "\n\nContext: " \o context

\* C9: every request sent, to either backend, carries the prompt verbatim
\* when the context is empty and prompt, "\n\nContext: " and context
\* otherwise, and the two adapters build the same text from the same inputs.
C9_PayloadShaping ==
    /\ \A t \in Tasks : \A n \in DOMAIN posts[t] :
          /\ req[t].context = "" => posts[t][n].content = req[t].prompt
          /\ req[t].context # "" =>
                posts[t][n].content =
                    req[t].prompt \o "\n\nContext: " \o req[t].context
    /\ \A r \in Requests :
          /\ ClaudePost(r.prompt, r.context).content = Payload(r.prompt, r.context)
          /\ OpenAIPost(r.prompt, r.context).content = Payload(r.prompt, r.context)
          /\ ClaudePost(r.prompt, r.context).content
               = OpenAIPost(r.prompt, r.context).content

\* One request went to Claude with a context and one without.
C9_Witness ==
    \E t, u \in Tasks :
        /\ posts[t] = <<[url |-> ClaudeUrl, content |-> "p:q\n\nContext: c"]>>
        /\ req[t].context = "c"
        /\ posts[u] = <<[url |-> ClaudeUrl, content |-> "q"]>>
        /\ req[u].context = ""

-----------------------------------------------------------------------------
(* C10 *)

\* C10 as stated: every invocation that failed (and was not cancelled by its
\* caller) raised a ProviderError, and no invocation returned the empty
\* string.  The code defines no ProviderError and has no try/except: the
\* exception raised inside the adapter (ConnectError, a timeout exception,
\* HTTPStatusError, JSONDecodeError, KeyError, IndexError) leaves call_ai
\* unchanged, so the first failed invocation violates this.
C10_OnlyProviderErrorAsStated ==
    \A t \in Tasks :
        /\ (pc[t] = "raised" /\ exc[t] # "CancelledError")
             => exc[t] = "ProviderError"
        /\ pc[t] = "returned" => result[t] # ""

-----------------------------------------------------------------------------
(* C11 *)

\* C11: the cache_id an invocation derives is a function of its (cache_key,
\* prompt, context) alone: it is the digest of the three joined by ":",
\* whatever the cache holds, whichever provider is configured and whatever
\* ran before, so two invocations of one triple derive one key.
C11_KeyDeterministic ==
    \A t, u \in Tasks :
        (pc[t] # "idle" /\ HasHint(req[t]))
        => /\ cache_id[t] = KeyOf(req[t])
           /\ (pc[u] # "idle" /\ req[u] = req[t]) => cache_id[u] = cache_id[t]

\* Two invocations of one request derived one key, the first with the cache
\* empty and the second with its entry cached, under a provider setting
\* that is neither of the two names.
C11_Witness ==
    \E t, u \in Tasks :
        /\ t # u /\ HasHint(req[t]) /\ req[u] = req[t]
        /\ access[t].writes = 1 /\ pc[u] = "returned" /\ posts[u] = <<>>
        /\ cache_id[u] = cache_id[t]
        /\ AI_PROVIDER = "azure"

-----------------------------------------------------------------------------
(* C12 *)

\* The two requests share cache_key and prompt and differ in context.
DifferInContext(r1, r2) ==
    r1.cache_key = r2.cache_key /\ r1.prompt = r2.prompt /\ r1.context # r2.context

\* C12: two invocations with a hint that differ in context only derive
\* different keys, and an invocation that starts when every entry of the
\* cache was stored for a request differing from its own in context only
\* misses the cache and goes to the provider.
C12_ContextInKey ==
    [][\A t \in Tasks :
          (Starts(t) /\ HasHint(req'[t]))
          => /\ \A u \in Tasks :
                  (pc[u] # "idle" /\ HasHint(req[u]) /\ DifferInContext(req[u], req'[t]))
                  => cache_id'[t] # cache_id[u]
             /\ ( /\ \E u \in Tasks : access[u].writes = 1
                  /\ \A u \in Tasks :
                        access[u].writes = 1 => DifferInContext(req[u], req'[t]) )
                => pc'[t] = "in_flight" /\ Len(posts'[t]) = 1]_vars

\* The request with the context was cached, and the one without it then
\* missed and cached another text under its own key.
C12_Witness ==
    \E t, u \in Tasks :
        /\ t < u /\ req[t] = ReqA /\ req[u] = ReqC
        /\ access[t].writes = 1 /\ access[u].writes = 1
        /\ _ai_cache[KeyOf(ReqA)] = result[t]
        /\ _ai_cache[KeyOf(ReqC)] = result[u]
        /\ result[t] # result[u]

-----------------------------------------------------------------------------------------------------------------------------------------------------
(* C13 *)

\* C13: an invocation cancelled while suspended never writes the cache and
\* has no request running on: the step that cancels it leaves the cache as
\* it is and ends it at once when it was closing its client; cancelled in
\* client.post it stays suspended only until the connection is closed,
\* takes no reply and sends nothing meanwhile, and all that changes of it
\* afterwards is that it raises CancelledError to its caller.
C13_CancelledNeverCaches ==
    [][\A t \in Tasks :
          /\ exc'[t] = "CancelledError"
             => /\ pc'[t] \in {"in_flight", "raised"}
                /\ access'[t].writes = 0
          /\ (exc[t] # "CancelledError" /\ exc'[t] = "CancelledError")
             => /\ _ai_cache' = _ai_cache
                /\ pc[t] = "closing" => pc'[t] = "raised"
                /\ posts'[t] = posts[t]
          /\ exc[t] = "CancelledError"
             => /\ exc'[t] = exc[t] /\ posts'[t] = posts[t]
                /\ access'[t] = access[t] /\ result'[t] = result[t]
                /\ pc'[t] \in {pc[t], "raised"}
                /\ pc'[t] # pc[t] => _ai_cache' = _ai_cache]_vars

\* An invocation with a hint was cancelled in client.post and is still
\* suspended while its connection is closed; a later invocation of the same
\* request has cached its text, and the cancelled one has written nothing.
C13_Witness ==
    \E t, u \in Tasks :
        /\ t < u
        /\ pc[t] = "in_flight" /\ exc[t] = "CancelledError" /\ HasHint(req[t])
        /\ Len(posts[t]) = 1 /\ access[t].writes = 0
        /\ req[u] = req[t] /\ access[u].writes = 1
        /\ KeyOf(req[t]) \in DOMAIN _ai_cache

-----------------------------------------------------------------------------
(* C14 *)

\* The invocation is over: it has returned a text or raised to its caller.
Over(t) == pc[t] \in {"returned", "raised"}

\* C14, as stated: every invocation that has sent its request is eventually
\* over.  The code violates it: the timeout bounds the silence on the
\* socket, not the request, so a provider that keeps sending parts of a
\* reply keeps the invocation in flight for ever.
C14_EventuallyCompletesAsStated ==
    \A t \in Tasks : (pc[t] \in {"in_flight", "closing"}) ~> Over(t)

-----
(* C16 *)

\* C16: an invocation sends at most one request, exactly one once it has
\* missed; the request goes to the Anthropic endpoint when AI_PROVIDER is
\* "claude" and to the OpenAI endpoint when it is "openai", and all
\* requests of a process go to the same endpoint whatever their prompt,
\* context and hint are.
C16_ProviderSelection ==
    /\ \A t \in Tasks :
          /\ Len(posts[t]) <= 1
          /\ pc[t] \in {"in_flight", "closing"} => Len(posts[t]) = 1
          /\ \A i \in 1..Len(posts[t]) :
                /\ posts[t][i].url \in {"https://api.anthropic.com/v1/messages",
                                        "https://api.openai.com/v1/chat/completions"}
                /\ AI_PROVIDER = "claude"
                   => posts[t][i].url = "https://api.anthropic.com/v1/messages"
                /\ AI_PROVIDER = "openai"
                   => posts[t][i].url = "https://api.openai.com/v1/chat/completions"
    /\ \A t, u \in Tasks :
          \A i \in 1..Len(posts[t]) : \A j \in 1..Len(posts[u]) :
              posts[t][i].url = posts[u][j].url

\* Two requests that differ in context and in hint have both been sent,
\* both to OpenAI.
C16_Witness ==
    \E t, u \in Tasks :
        /\ AI_PROVIDER = "openai"
        /\ req[t].context = "" /\ req[u].context # ""
        /\ HasHint(req[t]) /\ NoHint(req[u])
        /\ Len(posts[t]) = 1 /\ Len(posts[u]) = 1
        /\ posts[t][1].url = posts[u][1].url

-----------------------------------------------------------------------------
(* C18 *)

\* C18, as stated: a started invocation with a hint has a cache key other
\* than that of every entry written for a different request, and an
\* invocation answered from the cache
\* without a request of its own is answered from an entry that an
\* invocation of the same request wrote.  The code violates it: the key
\* string joins the three parts with ":" and the parts may contain ":".
C18_NoAliasingAsStated ==
    /\ \A t, u \in Tasks :
          ( /\ pc[t] # "idle" /\ pc[u] # "idle"
            /\ HasHint(req[t]) /\ HasHint(req[u])
            /\ access[t].writes = 1
            /\ req[t] # req[u] )
          => cache_id[t] # cache_id[u]
    /\ \A u \in Tasks :
          (pc[u] = "returned" /\ posts[u] = <<>>)
          => \E t \in Tasks : t # u /\ req[t] = req[u] /\ access[t].writes = 1

-----------------------------------------------------------------------------
(* C19 *)

\* C19, as stated: every entry of the cache is there with the same text
\* after every step.
C19_StableAsStated ==
    [][\A k \in DOMAIN _ai_cache :
          k \in DOMAIN _ai_cache' /\ _ai_cache'[k] = _ai_cache[k]]_vars

\* C19, amended: every entry stays in the cache; its text changes only in
\* the step in which an invocation of the same key that missed before the
\* entry was written returns, and then to the text that invocation got
\* from the provider; an invocation answered from the cache returns the
\* text the cache holds when it starts.
C19_StableUnlessOverlap ==
    [][/\ \A k \in DOMAIN _ai_cache :
            /\ k \in DOMAIN _ai_cache'
            /\ _ai_cache'[k] # _ai_cache[k]
               => \E t \in Tasks :
                     /\ pc[t] = "closing" /\ pc'[t] = "returned"
                     /\ HasHint(req[t]) /\ KeyOf(req[t]) = k
                     /\ ProviderCalls(t) = 1
                     /\ _ai_cache'[k] = result[t]
       /\ \A t \in Tasks :
            (Starts(t) /\ pc'[t] = "returned")
            => /\ KeyOf(req'[t]) \in DOMAIN _ai_cache
               /\ result'[t] = _ai_cache[KeyOf(req'[t])]]_vars

\* Two overlapping invocations of one request both missed; a third was
\* answered from the entry of the first, and the second has replaced the
\* text since.
C19_Witness ==
    \E i, j, v \in Tasks :
        /\ HasHint(req[i]) /\ req[j] = req[i] /\ req[v] = req[i]
        /\ access[i].writes = 1 /\ access[j].writes = 1
        /\ pc[v] = "returned" /\ posts[v] = <<>>
        /\ result[v] = result[i]
        /\ _ai_cache[KeyOf(req[i])] = result[j]
        /\ result[j] # result[v]

-----------------------------------------------------------------------------
(* C20 *)

\* The keys an invocation of request r may write.
OwnKeys(r) == IF HasHint(r) THEN {KeyOf(r)} ELSE {}

\* C20: the step in which an invocation is answered from the cache leaves
\* the cache as it is; the step in which an invocation returns after a
\* miss adds no key but its own and leaves the entries of all other keys
\* as they are; and no other step changes the cache.
C20_OwnEntryOnly ==
    [][/\ \A t \in Tasks :
            /\ (Starts(t) /\ pc'[t] = "returned") => _ai_cache' = _ai_cache
            /\ (pc[t] = "closing" /\ pc'[t] = "returned")
               => /\ DOMAIN _ai_cache' \subseteq DOMAIN _ai_cache \cup OwnKeys(req[t])
                  /\ \A k \in DOMAIN _ai_cache \ OwnKeys(req[t]) :
                        k \in DOMAIN _ai_cache' /\ _ai_cache'[k] = _ai_cache[k]
       /\ _ai_cache' # _ai_cache
          => \E t \in Tasks : pc[t] = "closing" /\ pc'[t] = "returned"]_vars

\* The cache holds entries of two keys, a third invocation was answered
\* from one of them, and the other entry holds another text.
C20_Witness ==
    \E t, u, v \in Tasks :
        /\ HasHint(req[t]) /\ HasHint(req[u]) /\ KeyOf(req[t]) # KeyOf(req[u])
        /\ access[t].writes = 1 /\ access[u].writes = 1
        /\ req[v] = req[t] /\ pc[v] = "returned" /\ posts[v] = <<>>
        /\ _ai_cache[KeyOf(req[t])] = result[v]
        /\ _ai_cache[KeyOf(req[u])] # result[v]

-----------------------------------------------------------------------------
(* C15 *)

\* The spellings of "true" in upper and lower case letters.
TrueSpellings ==
    {a \o b \o c \o d : a \in {"t", "T"}, b \in {"r", "R"},
                         c \in {"u", "U"}, d \in {"e", "E"}}

\* The text is a spelling of "true" with nothing but white space around it.
SaysTrue(text) ==
    \E i, j \in 1..Len(text) :
        /\ SubSeq(text, i, j) \in TrueSpellings
        /\ \A k \in (1..Len(text)) \ (i..j) :
              SubSeq(text, k, k) \in
                  {" ", "\t", "\n", "\r", "\f", "", "", "", "", "", "", " ", " "}

\* C15: a rule helper whose call_ai returned has given back true when the
\* text is "true" up to case and surrounding white space and false
\* otherwise; one whose call_ai raised has raised the same exception; and
\* before that it has given back nothing.
C15_RuleVerdict ==
    \A t \in Tasks :
        caller[t].helper \in {"check_rule_1", "check_rule_2"}
        => /\ pc[t] = "returned"
              => ret[t].state = "returned" /\ ret[t].verdict = SaysTrue(result[t])
           /\ pc[t] = "raised"
              => ret[t].state = "raised" /\ ret[t].exc = exc[t] /\ exc[t] # ""
           /\ pc[t] \notin {"returned", "raised"} => ret[t].state = "pending"

\* check_rule_1 got " True " from the provider and gave back true.
C15_Witness ==
    \E t \in Tasks :
        /\ caller[t].helper = "check_rule_1"
        /\ pc[t] = "returned" /\ result[t] = " True "
        /\ ret[t].state = "returned" /\ ret[t].verdict

-----------------------------------------------------------------------------
(* C17 *)

\* s has sub as a substring.
Contains(s, sub) ==
    \E i \in 1..(Len(s) - Len(sub) + 1) : SubSeq(s, i, i + Len(sub) - 1) = sub

\* The caller's data as text: the message itself for the rule helpers, the
\* JSON text of the dict for the others.
Serialized(c) ==
    IF c.helper \in {"check_rule_1", "check_rule_2"} THEN c.arg
    ELSE json_dumps([body |-> c.arg])

\* C17, as stated: the request of every helper call has the caller's data,
\* as text, as its context, and the text sent to the provider contains it.
\* The rule helpers violate it: they pass no context, and their prompt
\* holds the placeholder "{message_content}" instead of the message.
C17_PayloadCarriesDataAsStated ==
    \A t \in Tasks :
        (caller[t].helper # "" /\ pc[t] # "idle")
        => /\ req[t].context = Serialized(caller[t])
           /\ \A i \in 1..Len(posts[t]) :
                 Contains(posts[t][i].content, Serialized(caller[t]))

====
